---- MODULE Spec2Model ----
(***************************************************************************)
(* webcipher: the key-cache freshness protocol (RemoteCache: fetch,        *)
(* refresh, is_cache_fresh, decrypt_unchecked), the token verification     *)
(* pipeline (key_caches::decrypt) and the multi-provider registry          *)
(* (KeyRegistryBuilder, KeyRegistry).                                      *)
(***************************************************************************)
EXTENDS Integers, Sequences, FiniteSets, TLC

VARIABLES
    now,            \* Utc::now().timestamp(), Unix-epoch seconds
    uris,           \* KeyRegistryBuilder.uris : BTreeMap<Tpa, String>
    phase,          \* "builder": a builder is held; "registry": build() returned Ok
    remote_caches,  \* KeyRegistry.remote_caches : BTreeMap<Tpa, RemoteCache>
    pc,             \* per caller: "idle", or the await its pending future is suspended at
    inflight,       \* the frame of the pending future (the one holder of &mut)
    last,           \* the step just taken: operation, arguments, outcome
    local_cache     \* a LocalCache: algorithm, keys : BTreeMap<Uuid, (EncodingKey, DecodingKey)>

vars == <<now, uris, phase, remote_caches, pc, inflight, last, local_cache>>

----------------------------------------------------------------------------
(* Bounds of the model.                                                    *)

\* The clock starts at Now0 and advances at most MaxTicks seconds.
Now0 == 10000

\* the largest u64, on the scale of the model's clock
U64Max == 65535
MaxTicks == 1

\* Provider identities (the generic, ordered Tpa type), callers, key ids.
Tpas == {1, 2}
Callers == {"c1", "c2"}
Kids == {"k1", "k2"}

----------------------------------------------------------------------------
(* Option<T>: None is the empty sequence, Some(x) the one-element one.     *)

None == <<>>

Some(x) == <<x>>

\* an insert that keeps the value of an entry that is already there
InsertKeepsFirst(m, k, v) == [x \in (DOMAIN m) \cup {k} |-> IF x \in DOMAIN m THEN m[x] ELSE v]

\* BTreeMap::insert: the entry for k is replaced or added.
Insert(m, k, v) == [x \in (DOMAIN m) \cup {k} |-> IF x = k THEN v ELSE m[x]]

EmptyMap == [x \in {} |-> None]

----------------------------------------------------------------------------
(* Strings that the code transforms are sequences of characters.           *)

LowerChar(c) ==
    CASE c = "J" -> "j"
      [] c = "W" -> "w"
      [] c = "T" -> "t"
      [] c = "S" -> "s"
      [] OTHER -> c

\* str::to_lowercase
to_lowercase(s) == [i \in 1..Len(s) |-> LowerChar(s[i])]

Digits == {"0", "1", "2", "3", "4", "5", "6", "7", "8", "9"}

DigitVal(c) ==
    CASE c = "0" -> 0 [] c = "1" -> 1 [] c = "2" -> 2 [] c = "3" -> 3
      [] c = "4" -> 4 [] c = "5" -> 5 [] c = "6" -> 6 [] c = "7" -> 7
      [] c = "8" -> 8 [] c = "9" -> 9

RECURSIVE Horner(_, _)
Horner(s, acc) ==
    IF s = <<>> THEN acc ELSE Horner(Tail(s), 10 * acc + DigitVal(Head(s)))

\* str::parse::<u64>().ok(): a non-empty run of decimal digits, nothing else,
\* whose value fits a u64.
parse_u64(s) ==
    IF s # <<>> /\ (\A i \in 1..Len(s) : s[i] \in Digits) /\ Horner(s, 0) <= U64Max
    THEN Some(Horner(s, 0))
    ELSE None

\* u64 addition and subtraction as a build without overflow checks does them
wrapping_add(a, b) == (a + b) % (U64Max + 1)

wrapping_sub(a, b) == (a - b + U64Max + 1) % (U64Max + 1)

RECURSIVE TrimStart(_)
TrimStart(s) ==
    IF s # <<>> /\ Head(s) = " " THEN TrimStart(Tail(s)) ELSE s

RECURSIVE TrimEnd(_)
TrimEnd(s) ==
    IF s # <<>> /\ s[Len(s)] = " " THEN TrimEnd(SubSeq(s, 1, Len(s) - 1)) ELSE s

\* str::trim
trim(s) == TrimEnd(TrimStart(s))

\* The directive name "max-age=" is one token of a header string.
MaxAgeEq == "max-age="

\* str::contains("max-age=")
contains_max_age(s) == \E i \in 1..Len(s) : s[i] = MaxAgeEq

\* str::replace("max-age=", "")
replace_max_age(s) == SelectSeq(s, LAMBDA c : c # MaxAgeEq)


RECURSIVE SplitAcc(_, _, _)
SplitAcc(s, cur, acc) ==
    IF s = <<>> THEN Append(acc, cur)
    ELSE IF Head(s) = "," THEN SplitAcc(Tail(s), <<>>, Append(acc, cur))
    ELSE SplitAcc(Tail(s), Append(cur, Head(s)), acc)

\* str::split(","): the pieces between the commas, in order
split_comma(s) == SplitAcc(s, <<>>, <<>>)

\* Iterator::filter_map: the Some values of f over s, in order
RECURSIVE FlattenOptions(_)
FlattenOptions(opts) ==
    IF opts = <<>> THEN <<>>
    ELSE Head(opts) \o FlattenOptions(Tail(opts))

----------------------------------------------------------------------------
(* Errors (error.rs) and Result values.                                    *)

Ok(v) == [ok |-> TRUE, val |-> v, err |-> "none", diag |-> "none"]

Err(e) == [ok |-> FALSE, val |-> "none", err |-> e, diag |-> "none"]

\* a conversion that drops the delegate's error and keeps only the variant
ErrVerifyNoDiag(d) == [ok |-> FALSE, val |-> "none", err |-> "unable_to_verify_token", diag |-> "none"]

\* From<jsonwebtoken::errors::Error> for Error: the delegate's diagnostic is kept
ErrVerify(d) == [ok |-> FALSE, val |-> "none", err |-> "unable_to_verify_token", diag |-> d]

----------------------------------------------------------------------------
(* JWK descriptors as fetched (serde_json::Value) and the Key struct.      *)

Absent == "<absent>"

\* jsonwebtoken::Algorithm: the names serde accepts for an `alg` field
Algorithms == {"HS256", "HS384", "HS512", "ES256", "ES384", "RS256", "RS384", "RS512"}

Jwk(kty, alg, use, kid, n, e) ==
    [object |-> TRUE, kty |-> kty, alg |-> alg, use |-> use, kid |-> kid, n |-> n, e |-> e]

\* a JSON value that is no object at all (a number, a string)
NotAnObject ==
    [object |-> FALSE, kty |-> Absent, alg |-> Absent, use |-> Absent,
     kid |-> Absent, n |-> Absent, e |-> Absent]

\* serde_json::from_value::<Key>(value).ok()
from_value_Key(value) ==
    IF /\ value.object
       /\ value.kty \in {"RSA", "EC"}
       /\ value.alg \in Algorithms \cup {Absent}
       /\ value.kid # Absent
       /\ value.use \in {"sig", "enc"}
    THEN Some([e |-> IF value.e = Absent THEN "" ELSE value.e,
               kty |-> value.kty,
               alg |-> IF value.alg = Absent THEN None ELSE Some(value.alg),
               n |-> IF value.n = Absent THEN "" ELSE value.n,
               kid |-> value.kid,
               use |-> value.use])
    ELSE None

\* a string is Base64URL unless it holds a character outside the alphabet
IsBase64Url(s) == s \notin {"!!"}

\* DecodingKey::from_rsa_components(n, e).ok()
from_rsa_components(n, e) ==
    IF IsBase64Url(n) /\ IsBase64Url(e) THEN Some([n |-> n, e |-> e]) ELSE None

\* a filter that does not look at `use`
FilterKeyDropsUse(value) ==
    LET k == from_value_Key(value) IN
    IF k = None THEN None
    ELSE LET key == k[1] IN
         IF key.kty # "RSA" THEN None
         ELSE IF key.alg # Some("RS256") THEN None
         ELSE LET dk == from_rsa_components(key.n, key.e) IN
              IF dk = None THEN None
              ELSE Some([kid |-> key.kid, key |-> key, decoding_key |-> dk[1]])

\* the closure of fetch's filter_map: one descriptor to Option<(kid, (Key, DecodingKey))>
filter_key(value) ==
    LET k == from_value_Key(value) IN
    IF k = None THEN None
    ELSE LET key == k[1] IN
         IF key.kty # "RSA" THEN None
         ELSE IF key.alg # Some("RS256") THEN None
         ELSE IF key.use # "sig" THEN None
         ELSE LET dk == from_rsa_components(key.n, key.e) IN
              IF dk = None THEN None
              ELSE Some([kid |-> key.kid, key |-> key, decoding_key |-> dk[1]])

\* a collect in which the first entry under a kid stays
RECURSIVE CollectCacheFirst(_, _)
CollectCacheFirst(entries, acc) ==
    IF entries = <<>> THEN acc
    ELSE LET x == Head(entries) IN
         CollectCacheFirst(Tail(entries),
                           IF x.kid \in DOMAIN acc THEN acc
                           ELSE Insert(acc, x.kid, [key |-> x.key, decoding_key |-> x.decoding_key]))

\* Iterator::collect::<BTreeMap<_, _>>(): later entries replace earlier ones
RECURSIVE CollectCache(_, _)
CollectCache(entries, acc) ==
    IF entries = <<>> THEN acc
    ELSE LET x == Head(entries) IN
         CollectCache(Tail(entries),
                      Insert(acc, x.kid, [key |-> x.key, decoding_key |-> x.decoding_key]))

\* fetch, lines 380-416: the Cache built from the `keys` array
build_cache(values) ==
    CollectCache(FlattenOptions([i \in 1..Len(values) |-> filter_key(values[i])]), EmptyMap)


----------------------------------------------------------------------------
(* HTTP responses of the provider endpoint, and fetch.                     *)

\* the safety margin subtracted from max-age
one_hour == 3600

Response(transport, cache_control, body) ==
    [transport |-> transport, cache_control |-> cache_control, body |-> body]

\* a header value: its bytes as characters, and whether HeaderValue::to_str accepts them
Header(text) == Some([visible_ascii |-> TRUE, text |-> text])

OpaqueHeader == Some([visible_ascii |-> FALSE, text |-> <<>>])

\* a body: whether it is JSON, and the value of its top-level `keys` member if any
JsonKeys(values) == [json |-> TRUE, keys |-> Some([array |-> TRUE, values |-> values])]

JsonKeysNotArray == [json |-> TRUE, keys |-> Some([array |-> FALSE, values |-> <<>>])]

JsonNoKeys == [json |-> TRUE, keys |-> None]

NotJson == [json |-> FALSE, keys |-> None]

\* fetch, lines 347-362: the parseable max-age values of the cache-control header
max_ages(text) ==
    LET pieces == split_comma(text) IN
    FlattenOptions([i \in 1..Len(pieces) |->
        IF contains_max_age(pieces[i])
        THEN parse_u64(replace_max_age(trim(pieces[i])))
        ELSE None])

\* an expiry time taken from the last parsed max-age instead of the first
ExpiryTimeOfLast(ages, t) ==
    IF ages = <<>> THEN None
    ELSE Some(wrapping_sub(wrapping_add(t, ages[Len(ages)]), one_hour))

\* an expiry time that does not take the hour of margin off
ExpiryTimeNoMargin(ages, t) ==
    IF ages = <<>> THEN None ELSE Some(t + ages[1])

\* fetch, lines 364-368: `now + max_age - one_hour` in u64, as a build without
\* overflow checks computes it
expiry_time_of(ages, t) ==
    IF ages = <<>> THEN None
    ELSE Some(wrapping_sub(wrapping_add(t, ages[1]), one_hour))

\* fetch, lines 364-368: whether `now + max_age - one_hour` leaves the range of
\* u64 at the addition or at the subtraction, where a build with overflow
\* checks panics
expiry_time_overflows(ages, t) ==
    /\ ages # <<>>
    /\ \/ t + ages[1] > U64Max
       \/ t + ages[1] < one_hour

\* fetch, lines 343-368: from the request to the header-derived expiry time,
\* evaluated when the response head arrives (at time t)
fetch_head(resp, t) ==
    IF resp.transport = "connect_error" THEN Err("unable_to_fetch_keys")
    ELSE IF resp.cache_control = None THEN Err("no_cache_control")
    ELSE IF ~resp.cache_control[1].visible_ascii THEN Err("unable_to_parse_headers")
    ELSE Ok(expiry_time_of(max_ages(resp.cache_control[1].text), t))

\* a fetch that reports an error when no descriptor is left after the filter
FetchBodyRejectsEmpty(resp, expiry_time) ==
    IF resp.transport = "body_error" THEN Err("unable_to_fetch_keys")
    ELSE IF ~resp.body.json THEN Err("unrecognized_response")
    ELSE IF resp.body.keys = None THEN Err("unable_to_fetch_keys")
    ELSE IF ~resp.body.keys[1].array THEN Err("unrecognized_response")
    ELSE IF DOMAIN build_cache(resp.body.keys[1].values) = {}
         THEN Err("unable_to_fetch_keys")
    ELSE Ok([keys |-> build_cache(resp.body.keys[1].values), expiry_time |-> expiry_time])

\* fetch, lines 370-418: from the body to the (Cache, Option<u64>) pair
fetch_body(resp, expiry_time) ==
    IF resp.transport = "body_error" THEN Err("unable_to_fetch_keys")
    ELSE IF ~resp.body.json THEN Err("unrecognized_response")
    ELSE IF resp.body.keys = None THEN Err("unable_to_fetch_keys")
    ELSE IF ~resp.body.keys[1].array THEN Err("unrecognized_response")
    ELSE Ok([keys |-> build_cache(resp.body.keys[1].values), expiry_time |-> expiry_time])

\* fetch from the request to its result, the clock read at time t
fetch(resp, t) ==
    LET head == fetch_head(resp, t) IN
    IF ~head.ok THEN head ELSE fetch_body(resp, head.val)

----------------------------------------------------------------------------
(* RemoteCache.                                                            *)

\* String::parse::<http::Uri>(): any scheme parses, a malformed string does not
parse_uri(uri) == IF uri = "not a uri" THEN Err("invalid_uri") ELSE Ok(uri)

\* RemoteCache::new, lines 164-170: the struct built from a fetch's result
new_cache(uri, fetched) ==
    [uri |-> uri, keys |-> fetched.keys, expiry_time |-> fetched.expiry_time]

\* refresh assigning keys and leaving expiry_time as it was
RefreshWriteKeysOnly(cache, fetched) == [cache EXCEPT !.keys = fetched.keys]

\* refresh extending the cached map with the fetched entries
RefreshWriteMerges(cache, fetched) ==
    [cache EXCEPT
        !.keys = [kid \in (DOMAIN cache.keys) \cup (DOMAIN fetched.keys) |->
                     IF kid \in DOMAIN fetched.keys THEN fetched.keys[kid]
                     ELSE cache.keys[kid]],
        !.expiry_time = fetched.expiry_time]

\* RemoteCache::refresh, lines 183-184: both fields are assigned from the one result
refresh_write(cache, fetched) ==
    [cache EXCEPT !.keys = fetched.keys, !.expiry_time = fetched.expiry_time]

\* Ord::cmp on u64
cmp(a, b) == IF a < b THEN "Less" ELSE IF a = b THEN "Equal" ELSE "Greater"

\* is_cache_fresh with Ordering::Equal counted as fresh
IsCacheFreshAtExpiry(cache, t) ==
    IF cache.expiry_time = None THEN FALSE
    ELSE cmp(t, cache.expiry_time[1]) \in {"Less", "Equal"}

\* is_cache_fresh with unwrap_or(true)
IsCacheFreshUnknown(cache, t) ==
    IF cache.expiry_time = None THEN TRUE
    ELSE cmp(t, cache.expiry_time[1]) = "Less"

\* is_cache_fresh comparing expiry_time with now, the operands swapped
IsCacheFreshReversed(cache, t) ==
    IF cache.expiry_time = None THEN FALSE
    ELSE cmp(cache.expiry_time[1], t) = "Less"

\* RemoteCache::is_cache_fresh at time t
is_cache_fresh(cache, t) ==
    IF cache.expiry_time = None THEN FALSE
    ELSE CASE cmp(t, cache.expiry_time[1]) = "Less" -> TRUE
           [] cmp(t, cache.expiry_time[1]) \in {"Equal", "Greater"} -> FALSE


----------------------------------------------------------------------------
(* Tokens and the verification pipeline (key_caches::decrypt).             *)

JWT == <<"J", "W", "T">>

\* a compact-serialized token: whether its header part decodes, the header
\* fields, the public key matching the key that signed it, and its payload
Token(parses, alg, typ, kid, signed_by, payload) ==
    [parses |-> parses, alg |-> alg, typ |-> typ, kid |-> kid,
     signed_by |-> signed_by, payload |-> payload]

\* jsonwebtoken::decode_header
decode_header(token) ==
    IF token.parses
    THEN Ok([typ |-> token.typ, alg |-> token.alg, kid |-> token.kid])
    ELSE ErrVerify("InvalidToken")

\* jsonwebtoken::Validation::new(alg)
Validation_new(alg) == [algorithms |-> {alg}, validate_exp |-> TRUE]

\* jsonwebtoken::decode, the Verifier Delegate: algorithm pin, signature, payload, exp
jwt_decode(token, decoding_key, validation) ==
    IF token.alg \notin validation.algorithms THEN ErrVerify("InvalidAlgorithm")
    ELSE IF token.signed_by # decoding_key THEN ErrVerify("InvalidSignature")
    ELSE IF token.payload = "malformed" THEN ErrVerify("Json")
    ELSE IF validation.validate_exp /\ token.payload = "expired"
         THEN ErrVerify("ExpiredSignature")
    ELSE Ok("TokenData")

\* an alg check that lets every RSA PKCS#1 algorithm through
AlgCheckAnyRs(alg) ==
    IF alg \in {"RS256", "RS384", "RS512"} THEN Ok("unit") ELSE Err("invalid_algorithm")

\* key_caches::decrypt, lines 45-48: alg must be Algorithm::RS256
alg_check(alg) == IF alg = "RS256" THEN Ok("unit") ELSE Err("invalid_algorithm")

\* a typ check without to_lowercase
TypCheckExact(typ) ==
    IF typ = None THEN None
    ELSE IF typ[1] = <<"j", "w", "t">> THEN Some("unit") ELSE None

\* key_caches::decrypt, lines 52-58: typ, lower-cased, must be "jwt"
typ_check(typ) ==
    IF typ = None THEN None
    ELSE IF to_lowercase(typ[1]) = <<"j", "w", "t">> THEN Some("unit") ELSE None

\* decrypt asking for the kid before it looks at alg and typ
DecryptKidFirst(token, selector, validation) ==
    LET header == decode_header(token) IN
    IF ~header.ok
    THEN [out |-> header, steps |-> <<"decode_header">>]
    ELSE
    LET alg == header.val.alg
        typ == header.val.typ
        kid == header.val.kid
    IN
    IF kid = None
    THEN [out |-> Err("no_kid_present"), steps |-> <<"decode_header", "kid">>]
    ELSE
    IF alg # "RS256"
    THEN [out |-> Err("invalid_algorithm"), steps |-> <<"decode_header", "kid", "alg">>]
    ELSE
    LET v == IF validation = None THEN Validation_new(alg) ELSE validation[1] IN
    IF typ_check(typ) = None
    THEN [out |-> Err("unrecognized_jws_type"),
          steps |-> <<"decode_header", "kid", "alg", "typ">>]
    ELSE
    LET decoding_key == selector[kid[1]] IN
    IF ~decoding_key.ok
    THEN [out |-> decoding_key,
          steps |-> <<"decode_header", "kid", "alg", "typ", "selector">>]
    ELSE [out |-> jwt_decode(token, decoding_key.val, v),
          steps |-> <<"decode_header", "kid", "alg", "typ", "selector", "decode">>]

\* decrypt taking a missing kid for the empty string and asking the selector for it
DecryptKidDefault(token, selector, validation) ==
    LET header == decode_header(token) IN
    IF ~header.ok
    THEN [out |-> header, steps |-> <<"decode_header">>]
    ELSE
    LET alg == header.val.alg
        typ == header.val.typ
        kid == header.val.kid
    IN
    IF ~alg_check(alg).ok
    THEN [out |-> alg_check(alg), steps |-> <<"decode_header", "alg">>]
    ELSE
    LET v == IF validation = None THEN Validation_new(alg) ELSE validation[1] IN
    IF typ_check(typ) = None
    THEN [out |-> Err("unrecognized_jws_type"),
          steps |-> <<"decode_header", "alg", "typ">>]
    ELSE
    LET decoding_key == IF kid = None THEN Err("no_corresponding_kid_in_store")
                        ELSE selector[kid[1]]
    IN
    IF ~decoding_key.ok
    THEN [out |-> decoding_key,
          steps |-> <<"decode_header", "alg", "typ", "kid", "selector">>]
    ELSE [out |-> jwt_decode(token, decoding_key.val, v),
          steps |-> <<"decode_header", "alg", "typ", "kid", "selector", "decode">>]

\* key_caches::decrypt: the outcome, and the checks made in the order they were made.
\* selector is the callback, as a function from kid to Result<&DecodingKey>.
decrypt(token, selector, validation) ==
    LET header == decode_header(token) IN
    IF ~header.ok
    THEN [out |-> header, steps |-> <<"decode_header">>]
    ELSE
    LET alg == header.val.alg
        typ == header.val.typ
        kid == header.val.kid
    IN
    IF ~alg_check(alg).ok
    THEN [out |-> alg_check(alg), steps |-> <<"decode_header", "alg">>]
    ELSE
    LET v == IF validation = None THEN Validation_new(alg) ELSE validation[1] IN
    IF typ_check(typ) = None
    THEN [out |-> Err("unrecognized_jws_type"),
          steps |-> <<"decode_header", "alg", "typ">>]
    ELSE
    IF kid = None
    THEN [out |-> Err("no_kid_present"),
          steps |-> <<"decode_header", "alg", "typ", "kid">>]
    ELSE
    LET decoding_key == selector[kid[1]] IN
    IF ~decoding_key.ok
    THEN [out |-> decoding_key,
          steps |-> <<"decode_header", "alg", "typ", "kid", "selector">>]
    ELSE [out |-> jwt_decode(token, decoding_key.val, v),
          steps |-> <<"decode_header", "alg", "typ", "kid", "selector", "decode">>]

\* a selector that hands out the first cached key whatever the kid
SelectorAnyKey(keys) ==
    [kid \in Kids |->
        IF DOMAIN keys # {}
        THEN Ok(keys[CHOOSE k \in DOMAIN keys : TRUE].decoding_key)
        ELSE Err("no_corresponding_kid_in_store")]

\* a selector that finds no key
SelectorMisses(keys) ==
    [kid \in Kids |-> Err("no_corresponding_kid_in_store")]

\* RemoteCache::decrypt_unchecked, lines 218-222: the selector closure over keys
selector(keys) ==
    [kid \in Kids |->
        IF kid \in DOMAIN keys
        THEN Ok(keys[kid].decoding_key)
        ELSE Err("no_corresponding_kid_in_store")]

\* RemoteCache::decrypt_unchecked
decrypt_unchecked(cache, token) == decrypt(token, selector(cache.keys), None)

\* Result::unwrap on an Err: the thread panics and the call returns nothing
Panic(message) == [ok |-> FALSE, val |-> "none", err |-> "panic", diag |-> message]

\* KeyStore::decode: the outcome, and the checks made in the order they were made.
\* keys maps a kid to the Key fetched under it.
key_store_decode(keys, token) ==
    LET header == decode_header(token) IN
    IF ~header.ok
    THEN [out |-> Panic("Result::unwrap on Err"),
          steps |-> <<"decode_header">>]
    ELSE
    LET alg == header.val.alg
        typ == header.val.typ
        kid == header.val.kid
    IN
    IF typ_check(typ) = None
    THEN [out |-> Err("unrecognized_jws_type"), steps |-> <<"decode_header", "typ">>]
    ELSE
    IF kid = None
    THEN [out |-> Err("no_kid_present"), steps |-> <<"decode_header", "typ", "kid">>]
    ELSE
    IF kid[1] \notin DOMAIN keys
    THEN [out |-> Err("no_corresponding_kid_in_store"),
          steps |-> <<"decode_header", "typ", "kid", "selector">>]
    ELSE
    LET validation == Validation_new(alg)
        key == from_rsa_components(keys[kid[1]].n, keys[kid[1]].e)
    IN
    IF key = None
    THEN [out |-> ErrVerify("InvalidRsaKey"),
          steps |-> <<"decode_header", "typ", "kid", "selector">>]
    ELSE [out |-> jwt_decode(token, key[1], validation),
          steps |-> <<"decode_header", "typ", "kid", "selector", "decode">>]


----------------------------------------------------------------------------
(* LocalCache (key_caches/local).                                          *)

\* the values Uuid::new_v4 draws from
Uuids == {1, 2}

\* Uuid::to_string: the hyphenated text of a Uuid
uuid_to_string(uuid) ==
    IF uuid = 1 THEN "00000000-0000-4000-8000-000000000001"
    ELSE "00000000-0000-4000-8000-000000000002"

\* Uuid::from_str, with the conversion of its error (error.rs, lines 116-122)
uuid_from_str(text) ==
    IF \E uuid \in Uuids : uuid_to_string(uuid) = text
    THEN Ok(CHOOSE uuid \in Uuids : uuid_to_string(uuid) = text)
    ELSE Err("unable_to_parse_kid_into_uuid")

\* Algorithm::family
family(alg) == IF alg \in {"HS256", "HS384", "HS512"} THEN "Hmac" ELSE "Rsa"

\* the algorithms a LocalCache is created with
LocalAlgorithms == {"HS256", "HS512", "RS256"}

\* EncodingKey::from_secret / DecodingKey::from_secret of one secret
SecretPair ==
    [encoding_key |-> [family |-> "Hmac", verified_by |-> [secret |-> "Hailey is the best!"]],
     decoding_key |-> [secret |-> "Hailey is the best!"]]

\* an RSA private key and the DecodingKey of its public components
RsaPair ==
    [encoding_key |-> [family |-> "Rsa", verified_by |-> [n |-> "n1", e |-> "AQAB"]],
     decoding_key |-> [n |-> "n1", e |-> "AQAB"]]

\* the key pairs handed to add_key
KeyPairs == {SecretPair, RsaPair}

\* the claims handed to encrypt, by what their exp makes of them
Claims == {"valid", "expired"}

\* #[derive(Default)] of LocalCache: Algorithm::default() is HS256
LocalCacheDefault == [algorithm |-> "HS256", keys |-> EmptyMap]

\* LocalCache::new
local_cache_new(algorithm) == [algorithm |-> algorithm, keys |-> EmptyMap]

\* BTreeMap::keys().collect::<Vec<_>>(): the kids in ascending order
RECURSIVE sorted_kids(_)
sorted_kids(kids) ==
    IF kids = {} THEN <<>>
    ELSE LET k == CHOOSE x \in kids : \A y \in kids : x <= y IN
         <<k>> \o sorted_kids(kids \ {k})

\* jsonwebtoken::encode: the key must be of the family of the header's algorithm
encode(header, claims, encoding_key) ==
    IF encoding_key.family # family(header.alg) THEN ErrVerify("InvalidAlgorithm")
    ELSE Ok([parses |-> TRUE, alg |-> header.alg, typ |-> header.typ, kid |-> header.kid,
             signed_by |-> encoding_key.verified_by, payload |-> claims])

\* LocalCache::encrypt, with the index fastrand::usize(..length) drew
local_encrypt(cache, rand_index, claims) ==
    LET kids == sorted_kids(DOMAIN cache.keys) IN
    IF rand_index + 1 > Len(kids) THEN Err("no_corresponding_kid_in_store")
    ELSE LET kid == kids[rand_index + 1]
             header == [alg |-> cache.algorithm, typ |-> Some(JWT),
                        kid |-> Some(uuid_to_string(kid))]
         IN encode(header, claims, cache.keys[kid].encoding_key)

\* the texts a kid of a token can be
KidTexts == Kids \cup {uuid_to_string(uuid) : uuid \in Uuids}

\* LocalCache::decrypt, lines 99-106: the selector closure over keys
local_selector(keys) ==
    [kid \in KidTexts |->
        LET uuid == uuid_from_str(kid) IN
        IF ~uuid.ok THEN uuid
        ELSE IF uuid.val \in DOMAIN keys THEN Ok(keys[uuid.val].decoding_key)
        ELSE Err("no_corresponding_kid_in_store")]

\* LocalCache::decrypt: the pipeline of key_caches::decrypt under
\* Validation::new(self.algorithm) with validate_exp as given
local_decrypt(cache, token, validate_exp) ==
    decrypt(token, local_selector(cache.keys),
            Some([algorithms |-> {cache.algorithm}, validate_exp |-> validate_exp]))

----------------------------------------------------------------------------
(* Inputs: source locations, provider responses, tokens.                   *)

Uris == {"https://idp.example/certs", "not a uri"}

\* the RSA public keys of the provider (modulus, exponent)
Rsa1 == [n |-> "n1", e |-> "AQAB"]

Rsa2 == [n |-> "n2", e |-> "AQAB"]

\* "max-age=3601"
CcMaxAge3601 == <<MaxAgeEq, "3", "6", "0", "1">>

\* "public, max-age=1x, max-age=3601"
CcPublicBadThen3601 ==
    <<"p", "u", "b", "l", "i", "c", ",", " ", MaxAgeEq, "1", "x", ",",
      " ", MaxAgeEq, "3", "6", "0", "1">>

\* "public"
CcPublic == <<"p", "u", "b", "l", "i", "c">>

\* "max-age=100,max-age=3602"
CcMaxAge100Then3602 == <<MaxAgeEq, "1", "0", "0", ",", MaxAgeEq, "3", "6", "0", "2">>

GoodK1 == Jwk("RSA", "RS256", "sig", "k1", "n1", "AQAB")

GoodK2 == Jwk("RSA", "RS256", "sig", "k2", "n2", "AQAB")

\* one signing key, fresh for one second
RespK1 == Response("ok", Header(CcMaxAge3601), JsonKeys(<<GoodK1>>))

\* the key has rotated: k1 is now an encryption key, k2 signs
RespK2 ==
    Response("ok", Header(CcPublicBadThen3601),
             JsonKeys(<<Jwk("RSA", "RS256", "enc", "k1", "n1", "AQAB"), GoodK2>>))

\* no max-age directive, an empty key set
RespEmpty == Response("ok", Header(CcPublic), JsonKeys(<<>>))

\* a max-age below the margin; descriptors of every kind that is skipped, a repeated kid
RespMixed ==
    Response("ok", Header(CcMaxAge100Then3602),
             JsonKeys(<<GoodK1,
                        Jwk("RSA", "RS256", "sig", "k1", "n2", "AQAB"),
                        Jwk("RSA", "RS256", "sig", "k2", "!!", "AQAB"),
                        NotAnObject,
                        Jwk("EC", "ES256", "sig", "k2", "n2", "AQAB"),
                        Jwk("RSA", Absent, "sig", "k2", "n2", "AQAB"),
                        Jwk("RSA", "RS384", "sig", "k2", "n2", "AQAB"),
                        Jwk("oct", "HS256", "sig", "k2", "n2", "AQAB")>>))

\* no cache-control header at all
RespNoCacheControl == Response("ok", None, JsonKeys(<<GoodK1>>))

\* the connection fails
RespConnectError == Response("connect_error", None, NotJson)

\* the header value holds bytes HeaderValue::to_str rejects
RespOpaqueHeader == Response("ok", OpaqueHeader, JsonKeys(<<GoodK1>>))

\* the body is not JSON
RespNotJson == Response("ok", Header(CcMaxAge3601), NotJson)

\* the body is JSON without a `keys` member
RespNoKeys == Response("ok", Header(CcMaxAge3601), JsonNoKeys)

\* the body ends early
RespBodyError == Response("body_error", Header(CcMaxAge3601), JsonKeys(<<GoodK2>>))

\* `keys` is not an array
RespKeysNotArray == Response("ok", Header(CcMaxAge3601), JsonKeysNotArray)

\* what the provider endpoint may answer
Responses ==
    {RespK1, RespK2, RespEmpty, RespMixed, RespNoCacheControl, RespConnectError,
     RespOpaqueHeader, RespNotJson, RespNoKeys, RespBodyError, RespKeysNotArray}

NoResponse == Response("none", None, NotJson)

Typs == {None, Some(JWT), Some(<<"j", "w", "t">>), Some(<<"J", "w", "t">>), Some(<<"J", "W", "S">>)}

UnparseableToken == Token(FALSE, "none", None, None, Rsa1, "none")

\* every token of the bounded shape
AllTokens ==
    {UnparseableToken} \cup
    {Token(TRUE, alg, typ, kid, signed_by, payload) :
        alg \in {"RS256", "HS256", "RS384"}, typ \in Typs,
        kid \in {None} \cup {Some(k) : k \in Kids},
        signed_by \in {Rsa1, Rsa2}, payload \in {"valid", "expired", "malformed"}}

\* the tokens presented to the registry
Tokens ==
    {t \in AllTokens :
        /\ t.alg \in {"RS256", "HS256", "none"}
        /\ t.typ \in {None, Some(JWT)}
        /\ t.payload \in {"valid", "none"}
        /\ (t.typ = None /\ t.parses) => t.signed_by = Rsa1}


----------------------------------------------------------------------------
(* The state machine.                                                      *)

NoTpa == CHOOSE t \in 0..2 : t \notin Tpas

\* the uri argument of a call that takes none
NoUri == "none"

\* the record of the step just taken: the call, its arguments and what it returned
Label(op, tpa, token, auto_refresh, out, fetches, steps) ==
    [op |-> op, tpa |-> tpa, uri |-> NoUri, token |-> token, auto_refresh |-> auto_refresh,
     out |-> out, fetches |-> fetches, steps |-> steps]

Quiet(op) == Label(op, NoTpa, UnparseableToken, FALSE, Ok("unit"), 0, <<>>)

\* the frame of a future that is not pending
NoFrame ==
    [op |-> "none", tpa |-> NoTpa, token |-> UnparseableToken, auto_refresh |-> FALSE,
     uri |-> NoUri, todo |-> <<>>, done |-> EmptyMap,
     resp |-> NoResponse, utc_now |-> None, expiry_time |-> None,
     fetches |-> 0, steps |-> <<>>]

\* the steps that return nothing to a caller
QuietOps == {"init", "await", "cancel", "take", "tick"}

\* &mut self is exclusive: an operation starts only when no future is pending;
\* a returned value is taken by its caller before the next call is made
AllIdle == (\A c \in Callers : pc[c] = "idle") /\ last.op \in QuietOps

\* BTreeMap iteration: the entries in ascending key order
RECURSIVE into_iter(_)
into_iter(m) ==
    IF DOMAIN m = {} THEN <<>>
    ELSE LET k == CHOOSE x \in DOMAIN m : \A y \in DOMAIN m : x <= y IN
         <<[tpa |-> k, uri |-> m[k]]>>
            \o into_iter([x \in (DOMAIN m) \ {k} |-> m[x]])

\* a lookup that falls back to the first entry of the map
GetMutOrFirst(m, k) ==
    IF k \in DOMAIN m THEN Some(m[k])
    ELSE IF DOMAIN m # {} THEN Some(m[CHOOSE x \in DOMAIN m : TRUE])
    ELSE None

\* a lookup that answers a registered key with the first entry of the map
GetMutFirst(m, k) ==
    IF k \in DOMAIN m
    THEN Some(m[CHOOSE x \in DOMAIN m : \A y \in DOMAIN m : x <= y])
    ELSE None

\* BTreeMap::get_mut
get_mut(m, k) == IF k \in DOMAIN m THEN Some(m[k]) ELSE None

Init ==
    /\ now = Now0
    /\ uris = EmptyMap
    /\ phase = "builder"
    /\ remote_caches = EmptyMap
    /\ pc = [c \in Callers |-> "idle"]
    /\ inflight = NoFrame
    /\ last = Quiet("init")
    /\ local_cache = LocalCacheDefault

\* a refresh that has cleared self.keys before it awaits the fetch
ReturnDropsKeys(c, out) ==
    /\ pc' = [pc EXCEPT ![c] = "idle"]
    /\ inflight' = NoFrame
    /\ last' = Label(inflight.op, inflight.tpa, inflight.token, inflight.auto_refresh,
                     out, inflight.fetches, inflight.steps)
    /\ remote_caches' =
          IF inflight.op \in {"refresh", "decrypt"}
          THEN [remote_caches EXCEPT ![inflight.tpa].keys = EmptyMap]
          ELSE remote_caches
    /\ UNCHANGED <<uris, phase>>

\* the pending future of caller c returns `out`: nothing of the registry is written
Return(c, out) ==
    /\ pc' = [pc EXCEPT ![c] = "idle"]
    /\ inflight' = NoFrame
    /\ last' = Label(inflight.op, inflight.tpa, inflight.token, inflight.auto_refresh,
                     out, inflight.fetches, inflight.steps)
    /\ UNCHANGED <<uris, phase, remote_caches>>

\* the request of fetch is sent and the future suspends at client.get(uri).await
SendRequest(c, frame) ==
    /\ pc' = [pc EXCEPT ![c] = "get"]
    /\ inflight' = [frame EXCEPT !.fetches = frame.fetches + 1,
                                 !.steps = Append(frame.steps, "fetch")]
    /\ last' = Quiet("await")

\* KeyRegistryBuilder::add_remote
add_remote(tpa, uri) ==
    /\ phase = "builder"
    /\ AllIdle
    /\ uris' = Insert(uris, tpa, uri)
    /\ last' = [Label("add_remote", tpa, UnparseableToken, FALSE, Ok("unit"), 0, <<>>)
                   EXCEPT !.uri = uri]
    /\ UNCHANGED <<now, phase, remote_caches, pc, inflight>>
    /\ UNCHANGED local_cache

\* a build that, at an entry whose location does not parse, returns the
\* registry of the caches built so far
BuildLoopPartial(c, entries, done, fetches) ==
    IF entries = <<>> \/ ~parse_uri(Head(entries).uri).ok
    THEN /\ remote_caches' = done
         /\ phase' = "registry"
         /\ pc' = [pc EXCEPT ![c] = "idle"]
         /\ inflight' = NoFrame
         /\ last' = Label("build", NoTpa, UnparseableToken, FALSE, Ok("unit"), fetches, <<>>)
    ELSE /\ SendRequest(c, [NoFrame EXCEPT !.op = "build", !.tpa = Head(entries).tpa,
                                           !.uri = parse_uri(Head(entries).uri).val,
                                           !.todo = Tail(entries),
                                           !.done = done, !.fetches = fetches])
         /\ UNCHANGED <<phase, remote_caches>>

\* KeyRegistryBuilder::build, the loop from its head: entries left, caches built so far
build_loop(c, entries, done, fetches) ==
    IF entries = <<>>
    THEN /\ remote_caches' = done
         /\ phase' = "registry"
         /\ pc' = [pc EXCEPT ![c] = "idle"]
         /\ inflight' = NoFrame
         /\ last' = Label("build", NoTpa, UnparseableToken, FALSE, Ok("unit"), fetches, <<>>)
    ELSE LET entry == Head(entries)
             uri == parse_uri(entry.uri)
         IN
         IF ~uri.ok
         THEN /\ pc' = [pc EXCEPT ![c] = "idle"]
              /\ inflight' = NoFrame
              /\ last' = Label("build", entry.tpa, UnparseableToken, FALSE, uri, fetches, <<>>)
              /\ UNCHANGED <<phase, remote_caches>>
         ELSE /\ SendRequest(c, [NoFrame EXCEPT !.op = "build", !.tpa = entry.tpa,
                                                !.uri = uri.val, !.todo = Tail(entries),
                                                !.done = done, !.fetches = fetches])
              /\ UNCHANGED <<phase, remote_caches>>

\* KeyRegistryBuilder::build: the builder is consumed
build(c) ==
    /\ phase = "builder"
    /\ AllIdle
    /\ uris' = EmptyMap
    /\ build_loop(c, into_iter(uris), EmptyMap, 0)
    /\ UNCHANGED now
    /\ UNCHANGED local_cache

\* a refresh that empties self.keys before it awaits the fetch
RefreshClearsFirst(c, tpa) ==
    /\ phase = "registry"
    /\ AllIdle
    /\ tpa \in DOMAIN remote_caches
    /\ SendRequest(c, [NoFrame EXCEPT !.op = "refresh", !.tpa = tpa,
                                      !.uri = remote_caches[tpa].uri])
    /\ remote_caches' = [remote_caches EXCEPT ![tpa].keys = EmptyMap]
    /\ UNCHANGED <<now, uris, phase>>
    /\ UNCHANGED local_cache

\* RemoteCache::refresh, called on an entry of remote_caches_mut()
refresh(c, tpa) ==
    /\ phase = "registry"
    /\ AllIdle
    /\ tpa \in DOMAIN remote_caches
    /\ SendRequest(c, [NoFrame EXCEPT !.op = "refresh", !.tpa = tpa,
                                      !.uri = remote_caches[tpa].uri])
    /\ UNCHANGED <<now, uris, phase, remote_caches>>
    /\ UNCHANGED local_cache

\* fetch resumes with the head of the response the endpoint gave
fetch_get_done(c, resp) ==
    /\ pc[c] = "get"
    /\ LET head == fetch_head(resp, now) IN
       IF ~head.ok
       THEN Return(c, head)
       ELSE /\ pc' = [pc EXCEPT ![c] = "body"]
            /\ inflight' = [inflight EXCEPT
                    !.resp = resp,
                    !.utc_now = IF head.val = None THEN None ELSE Some(now),
                    !.expiry_time = head.val]
            /\ last' = Quiet("await")
            /\ UNCHANGED <<uris, phase, remote_caches>>
    /\ UNCHANGED now
    /\ UNCHANGED local_cache

\* the caller of fetch resumes with fetch's Ok value
fetch_ok(c, fetched) ==
    CASE inflight.op = "build" ->
            /\ build_loop(c, inflight.todo,
                          Insert(inflight.done, inflight.tpa, new_cache(inflight.uri, fetched)),
                          inflight.fetches)
            /\ UNCHANGED uris
      [] inflight.op = "refresh" ->
            /\ remote_caches' = [remote_caches EXCEPT
                    ![inflight.tpa] = refresh_write(remote_caches[inflight.tpa], fetched)]
            /\ pc' = [pc EXCEPT ![c] = "idle"]
            /\ inflight' = NoFrame
            /\ last' = Label("refresh", inflight.tpa, UnparseableToken, FALSE, Ok("unit"),
                             inflight.fetches, inflight.steps)
            /\ UNCHANGED <<uris, phase>>
      [] inflight.op = "decrypt" ->
            LET cache == refresh_write(remote_caches[inflight.tpa], fetched)
                r == decrypt_unchecked(cache, inflight.token)
            IN
            /\ remote_caches' = [remote_caches EXCEPT ![inflight.tpa] = cache]
            /\ pc' = [pc EXCEPT ![c] = "idle"]
            /\ inflight' = NoFrame
            /\ last' = Label("decrypt", inflight.tpa, inflight.token, inflight.auto_refresh,
                             r.out, inflight.fetches, inflight.steps \o r.steps)
            /\ UNCHANGED <<uris, phase>>

\* fetch resumes with the body
fetch_body_done(c) ==
    /\ pc[c] = "body"
    /\ LET fetched == fetch_body(inflight.resp, inflight.expiry_time) IN
       IF ~fetched.ok
       THEN Return(c, fetched)
       ELSE fetch_ok(c, fetched.val)
    /\ UNCHANGED now
    /\ UNCHANGED local_cache

\* the caller drops the pending future
cancel(c) ==
    /\ pc[c] # "idle"
    /\ pc' = [pc EXCEPT ![c] = "idle"]
    /\ inflight' = NoFrame
    /\ last' = Quiet("cancel")
    /\ UNCHANGED <<now, uris, phase, remote_caches>>
    /\ UNCHANGED local_cache

\* RemoteCache::is_cache_fresh on an entry of remote_caches()
IsCacheFresh(tpa) ==
    /\ phase = "registry"
    /\ AllIdle
    /\ tpa \in DOMAIN remote_caches
    /\ last' = Label("is_cache_fresh", tpa, UnparseableToken, FALSE,
                     Ok(IF is_cache_fresh(remote_caches[tpa], now) THEN "true" ELSE "false"),
                     0, <<>>)
    /\ UNCHANGED <<now, uris, phase, remote_caches, pc, inflight>>
    /\ UNCHANGED local_cache

\* a decrypt_unchecked that marks the cache expired when the kid is not in it
DecryptUncheckedEvicts(tpa, token) ==
    /\ phase = "registry"
    /\ AllIdle
    /\ tpa \in DOMAIN remote_caches
    /\ LET r == decrypt_unchecked(remote_caches[tpa], token) IN
       /\ last' = Label("decrypt_unchecked", tpa, token, FALSE, r.out, 0, r.steps)
       /\ remote_caches' =
             IF ~r.out.ok /\ r.out.err = "no_corresponding_kid_in_store"
             THEN [remote_caches EXCEPT ![tpa].expiry_time = None]
             ELSE remote_caches
    /\ UNCHANGED <<now, uris, phase, pc, inflight>>
    /\ UNCHANGED local_cache

\* RemoteCache::decrypt_unchecked on an entry of remote_caches()
DecryptUnchecked(tpa, token) ==
    /\ phase = "registry"
    /\ AllIdle
    /\ tpa \in DOMAIN remote_caches
    /\ LET r == decrypt_unchecked(remote_caches[tpa], token) IN
       last' = Label("decrypt_unchecked", tpa, token, FALSE, r.out, 0, r.steps)
    /\ UNCHANGED <<now, uris, phase, remote_caches, pc, inflight>>
    /\ UNCHANGED local_cache

\* RemoteCache::decrypt(token, auto_refresh): whether it refreshes first
needs_refresh(cache, auto_refresh, t) == auto_refresh /\ ~is_cache_fresh(cache, t)

\* RemoteCache::decrypt(token, auto_refresh), up to its first await or its return
remote_cache_decrypt(c, tpa, cache, token, auto_refresh) ==
    IF needs_refresh(cache, auto_refresh, now)
    THEN /\ SendRequest(c, [NoFrame EXCEPT !.op = "decrypt", !.tpa = tpa, !.token = token,
                                           !.auto_refresh = auto_refresh, !.uri = cache.uri])
         /\ UNCHANGED remote_caches
    ELSE LET r == decrypt_unchecked(cache, token) IN
         /\ last' = Label("decrypt", tpa, token, auto_refresh, r.out, 0, r.steps)
         /\ UNCHANGED <<remote_caches, pc, inflight>>

\* KeyRegistry::decrypt
KeyRegistryDecrypt(c, tpa, token, auto_refresh) ==
    /\ phase = "registry"
    /\ AllIdle
    /\ LET tpa_remote_cache == get_mut(remote_caches, tpa) IN
       IF tpa_remote_cache = None
       THEN /\ last' = Label("decrypt", tpa, token, auto_refresh,
                             Err("unrecognized_tpa"), 0, <<>>)
            /\ UNCHANGED <<remote_caches, pc, inflight>>
       ELSE remote_cache_decrypt(c, tpa, tpa_remote_cache[1], token, auto_refresh)
    /\ UNCHANGED <<now, uris, phase>>
    /\ UNCHANGED local_cache

\* the caller takes the value the last call returned
take ==
    /\ last.op \notin QuietOps
    /\ last' = Quiet("take")
    /\ UNCHANGED <<now, uris, phase, remote_caches, pc, inflight>>
    /\ UNCHANGED local_cache

\* a clock that drops the keys of every cache whose expiry time it reaches
TickEvicts ==
    /\ now < Now0 + MaxTicks
    /\ now' = now + 1
    /\ last' = Quiet("tick")
    /\ remote_caches' =
          [tpa \in DOMAIN remote_caches |->
              IF /\ remote_caches[tpa].expiry_time # None
                 /\ remote_caches[tpa].expiry_time[1] <= now + 1
              THEN [remote_caches[tpa] EXCEPT !.keys = EmptyMap]
              ELSE remote_caches[tpa]]
    /\ UNCHANGED <<uris, phase, pc, inflight>>
    /\ UNCHANGED local_cache

\* a second passes
Tick ==
    /\ now < Now0 + MaxTicks
    /\ now' = now + 1
    /\ last' = Quiet("tick")
    /\ UNCHANGED <<uris, phase, remote_caches, pc, inflight>>
    /\ UNCHANGED local_cache

Next ==
    \/ \E tpa \in Tpas, uri \in Uris : add_remote(tpa, uri)
    \/ \E c \in Callers : build(c)
    \/ \E c \in Callers, tpa \in Tpas : refresh(c, tpa)
    \/ \E c \in Callers, resp \in Responses : fetch_get_done(c, resp)
    \/ \E c \in Callers : fetch_body_done(c)
    \/ \E c \in Callers : cancel(c)
    \/ \E tpa \in Tpas : IsCacheFresh(tpa)
    \/ \E tpa \in Tpas, token \in Tokens : DecryptUnchecked(tpa, token)
    \/ \E c \in Callers, tpa \in Tpas, token \in Tokens, auto_refresh \in BOOLEAN :
          KeyRegistryDecrypt(c, tpa, token, auto_refresh)
    \/ take
    \/ Tick

Spec == Init /\ [][Next]_vars


----------------------------------------------------------------------------
(* The verification pipeline alone: a cache as some fetch left it, and     *)
(* every token of the bounded shape presented to decrypt_unchecked.        *)

\* the caches RemoteCache::new builds from the responses that fetch accepts
FetchedCaches ==
    {new_cache("https://idp.example/certs",
               fetch_body(resp, fetch_head(resp, Now0).val).val) :
        resp \in {r \in Responses :
                    fetch_head(r, Now0).ok /\ fetch_body(r, fetch_head(r, Now0).val).ok}}

InitVerify ==
    /\ now = Now0
    /\ uris = EmptyMap
    /\ phase = "registry"
    /\ remote_caches \in {[t \in {1} |-> cache] : cache \in FetchedCaches}
    /\ pc = [c \in Callers |-> "idle"]
    /\ inflight = NoFrame
    /\ last = Quiet("init")
    /\ local_cache = LocalCacheDefault

NextVerify ==
    \/ \E token \in AllTokens : DecryptUnchecked(1, token)
    \/ take

SpecVerify == InitVerify /\ [][NextVerify]_vars

----------------------------------------------------------------------------
(* A LocalCache: created, given keys, then encrypt and decrypt of what     *)
(* encrypt returned.                                                       *)

InitLocal ==
    /\ now = Now0
    /\ uris = EmptyMap
    /\ phase = "builder"
    /\ remote_caches = EmptyMap
    /\ pc = [c \in Callers |-> "idle"]
    /\ inflight = NoFrame
    /\ last = Quiet("init")
    /\ local_cache = LocalCacheDefault

\* LocalCache::new(algorithm)
LocalCacheNew(algorithm) ==
    /\ AllIdle
    /\ local_cache' = local_cache_new(algorithm)
    /\ last' = Quiet("await")
    /\ UNCHANGED <<now, uris, phase, remote_caches, pc, inflight>>

\* LocalCache::add_key: the pair is stored under the kid Uuid::new_v4 drew
add_key(kid, pair) ==
    /\ AllIdle
    /\ kid \notin DOMAIN local_cache.keys
    /\ local_cache' = [local_cache EXCEPT !.keys = Insert(local_cache.keys, kid, pair)]
    /\ last' = Quiet("await")
    /\ UNCHANGED <<now, uris, phase, remote_caches, pc, inflight>>

\* LocalCache::remove_key
remove_key(kid) ==
    /\ AllIdle
    /\ local_cache' = [local_cache EXCEPT
                         !.keys = [k \in (DOMAIN local_cache.keys) \ {kid} |-> local_cache.keys[k]]]
    /\ last' = Quiet("await")
    /\ UNCHANGED <<now, uris, phase, remote_caches, pc, inflight>>

\* LocalCache::encrypt(claims): the label carries the token returned
LocalEncrypt(rand_index, claims) ==
    /\ AllIdle
    /\ rand_index < Cardinality(DOMAIN local_cache.keys) \/ rand_index = 0
    /\ LET r == local_encrypt(local_cache, rand_index, claims) IN
       last' = Label("encrypt", NoTpa, IF r.ok THEN r.val ELSE UnparseableToken, FALSE,
                     IF r.ok THEN Ok("token") ELSE r, 0, <<>>)
    /\ UNCHANGED <<now, uris, phase, remote_caches, pc, inflight, local_cache>>

\* LocalCache::decrypt(&token, validate_exp) of the token encrypt has just returned
LocalDecrypt(validate_exp) ==
    /\ last.op = "encrypt"
    /\ last.out.ok
    /\ LET r == local_decrypt(local_cache, last.token, validate_exp) IN
       last' = Label("local_decrypt", NoTpa, last.token, FALSE, r.out, 0, r.steps)
    /\ UNCHANGED <<now, uris, phase, remote_caches, pc, inflight, local_cache>>

NextLocal ==
    \/ \E algorithm \in LocalAlgorithms : LocalCacheNew(algorithm)
    \/ \E kid \in Uuids, pair \in KeyPairs : add_key(kid, pair)
    \/ \E kid \in Uuids : remove_key(kid)
    \/ \E rand_index \in 0..1, claims \in Claims : LocalEncrypt(rand_index, claims)
    \/ \E validate_exp \in BOOLEAN : LocalDecrypt(validate_exp)
    \/ take

SpecLocal == InitLocal /\ [][NextLocal]_vars

----------------------------------------------------------------------------
(* The two verification routines of the repository side by side:           *)
(* RemoteCache::decrypt_unchecked and KeyStore::decode, on the same keys.  *)

\* the tokens whose declared algorithm an RSA key can be asked to verify
RsaTokens == {t \in AllTokens : t.alg \in {"none", "RS256", "RS384"}}

\* KeyStore::keys of a store that fetched what the cache fetched: kid -> Key
store_keys(cache) == [kid \in DOMAIN cache.keys |-> cache.keys[kid].key]

\* KeyStore::decode on the store of tpa
KeyStoreDecode(tpa, token) ==
    /\ phase = "registry"
    /\ AllIdle
    /\ tpa \in DOMAIN remote_caches
    /\ LET r == key_store_decode(store_keys(remote_caches[tpa]), token) IN
       last' = Label("decode", tpa, token, FALSE, r.out, 0, r.steps)
    /\ UNCHANGED <<now, uris, phase, remote_caches, pc, inflight>>
    /\ UNCHANGED local_cache

NextStore ==
    \/ \E token \in RsaTokens : DecryptUnchecked(1, token)
    \/ \E token \in RsaTokens : KeyStoreDecode(1, token)
    \/ take

SpecStore == InitVerify /\ [][NextStore]_vars


----------------------------------------------------------------------------
(* One RemoteCache, constructed and refreshed against every response of a   *)
(* bounded shape; inflight keeps the response the last fetch received.      *)

\* descriptors that are all skipped: not an object, another family, an absent
\* or another algorithm, usage enc, a modulus that does not decode, no kid
UnusableKeys ==
    <<NotAnObject,
      Jwk("EC", "ES256", "sig", "k1", "n1", "AQAB"),
      Jwk("RSA", Absent, "sig", "k1", "n1", "AQAB"),
      Jwk("RSA", "RS384", "sig", "k1", "n1", "AQAB"),
      Jwk("RSA", "RS256", "enc", "k1", "n1", "AQAB"),
      Jwk("RSA", "RS256", "sig", "k2", "!!", "AQAB"),
      Jwk("RSA", "RS256", "sig", Absent, "n2", "AQAB")>>

\* the cache-control header of a response: none, unreadable, or a value
FetchHeaders ==
    {None, OpaqueHeader} \cup
    {Header(text) : text \in {CcPublic, CcMaxAge3601, CcPublicBadThen3601, CcMaxAge100Then3602}}

\* the body of a response
FetchBodies ==
    {NotJson, JsonNoKeys, JsonKeysNotArray} \cup
    {JsonKeys(values) : values \in {<<>>, <<GoodK1>>, UnusableKeys, UnusableKeys \o <<GoodK2>>,
                                    RespK2.body.keys[1].values, RespMixed.body.keys[1].values}}

FetchResponses ==
    {Response("ok", cache_control, body) : cache_control \in FetchHeaders, body \in FetchBodies}
        \cup {RespConnectError, RespBodyError}

InitFetch ==
    /\ now = Now0
    /\ uris = EmptyMap
    /\ phase = "registry"
    /\ remote_caches = EmptyMap
    /\ pc = [c \in Callers |-> "idle"]
    /\ inflight = NoFrame
    /\ last = Quiet("init")
    /\ local_cache = LocalCacheDefault

\* RemoteCache::new(uri), the cache put into the registry under tpa
RemoteCacheNew(tpa, uri, resp) ==
    /\ AllIdle
    /\ LET parsed == parse_uri(uri)
           fetched == IF parsed.ok THEN fetch(resp, now) ELSE parsed
       IN
       /\ remote_caches' =
             IF fetched.ok
             THEN Insert(remote_caches, tpa, new_cache(parsed.val, fetched.val))
             ELSE remote_caches
       /\ inflight' = [NoFrame EXCEPT !.op = "new", !.tpa = tpa,
                                      !.resp = IF parsed.ok THEN resp ELSE NoResponse]
       /\ last' = [Label("new", tpa, UnparseableToken, FALSE,
                         IF fetched.ok THEN Ok("unit") ELSE fetched,
                         IF parsed.ok THEN 1 ELSE 0, <<>>)
                   EXCEPT !.uri = uri]
    /\ UNCHANGED <<now, uris, phase, pc>>
    /\ UNCHANGED local_cache

\* RemoteCache::refresh on the cache of tpa
RemoteCacheRefresh(tpa, resp) ==
    /\ AllIdle
    /\ tpa \in DOMAIN remote_caches
    /\ LET fetched == fetch(resp, now) IN
       /\ remote_caches' =
             IF fetched.ok
             THEN [remote_caches EXCEPT ![tpa] = refresh_write(remote_caches[tpa], fetched.val)]
             ELSE remote_caches
       /\ inflight' = [NoFrame EXCEPT !.op = "refresh", !.tpa = tpa, !.resp = resp]
       /\ last' = Label("refresh", tpa, UnparseableToken, FALSE,
                        IF fetched.ok THEN Ok("unit") ELSE fetched, 1, <<>>)
    /\ UNCHANGED <<now, uris, phase, pc>>
    /\ UNCHANGED local_cache

NextFetch ==
    \/ \E uri \in Uris, resp \in FetchResponses : RemoteCacheNew(1, uri, resp)
    \/ \E resp \in FetchResponses : RemoteCacheRefresh(1, resp)
    \/ take
    \/ Tick

SpecFetch == InitFetch /\ [][NextFetch]_vars

----------------------------------------------------------------------------
(* RemoteCache::new over source locations of every kind.                   *)

\* the locations handed to RemoteCache::new: https, plain http, not a URI
Locations == Uris \cup {"http://idp.example/certs"}

NextLocation ==
    \/ \E uri \in Locations, resp \in Responses : RemoteCacheNew(1, uri, resp)
    \/ take
    \/ Tick

SpecLocation == InitFetch /\ [][NextLocation]_vars

----------------------------------------------------------------------------
(* Properties.                                                             *)

\* a call of some caller is suspended at an await
Pending == \E c \in Callers : pc[c] # "idle"

\* the cache carries no expiry, or its expiry has been reached
Stale(cache, t) == cache.expiry_time = None \/ cache.expiry_time[1] <= t

\* the tokens of Tokens that decrypt_unchecked accepts against the cache
Accepted(cache) == {token \in Tokens : decrypt_unchecked(cache, token).out.ok}

\* C1: a refresh that fails, whatever the failure, leaves every cache of the
\* registry (keys and expiry_time) exactly as it was before the call, and
\* every token that verified against the cache before still verifies.
C1_FailedRefreshKeepsCache ==
    [][(last'.op = "refresh" /\ ~last'.out.ok) =>
          /\ remote_caches' = remote_caches
          /\ Accepted(remote_caches[last'.tpa]) \subseteq Accepted(remote_caches'[last'.tpa])]_vars

\* a refresh has failed on a body that is no JSON, on a cache that verifies a token
C1_Witness ==
    /\ last.op = "refresh"
    /\ last.out = Err("unrecognized_response")
    /\ DOMAIN remote_caches[last.tpa].keys # {}
    /\ Accepted(remote_caches[last.tpa]) # {}

\* C2: keys and expiry_time of a cache change only together and only to the
\* pair one fetch produced: a step that changes a cache entry leaves it with
\* the keys and the expiry of the fetch that completes in that step, and no
\* step leaves keys of one fetch beside the expiry of another.
C2_PairReplacedTogether ==
    [][\A tpa \in (DOMAIN remote_caches) \cap (DOMAIN remote_caches') :
          remote_caches'[tpa] # remote_caches[tpa] =>
             LET fetched == fetch_body(inflight.resp, inflight.expiry_time) IN
             /\ Pending
             /\ tpa = inflight.tpa
             /\ fetched.ok
             /\ remote_caches'[tpa].keys = fetched.val.keys
             /\ remote_caches'[tpa].expiry_time = fetched.val.expiry_time
             /\ remote_caches'[tpa].uri = remote_caches[tpa].uri]_vars

\* a refresh has replaced the pair: the rotated key set with the expiry of its response
C2_Witness ==
    /\ last.op = "refresh"
    /\ last.out.ok
    /\ now = Now0 + 1
    /\ DOMAIN remote_caches[last.tpa].keys = {"k2"}
    /\ remote_caches[last.tpa].expiry_time = Some(Now0 + 1 + 3601 - one_hour)

\* the descriptor passes the filter of the key set: an RSA, RS256, sig key
\* with a kid and a modulus and exponent that decode
Acceptable(v) ==
    /\ v.object
    /\ v.kty = "RSA"
    /\ v.alg = "RS256"
    /\ v.use = "sig"
    /\ v.kid # Absent
    /\ IsBase64Url(v.n)
    /\ IsBase64Url(v.e)

\* keys holds, under each kid, a key built from an acceptable descriptor of
\* values with that kid, and every acceptable descriptor's kid is a key of it
ExactlyFiltered(keys, values) ==
    /\ \A kid \in DOMAIN keys :
          \E i \in 1..Len(values) :
             /\ Acceptable(values[i])
             /\ values[i].kid = kid
             /\ keys[kid].decoding_key = [n |-> values[i].n, e |-> values[i].e]
    /\ \A i \in 1..Len(values) : Acceptable(values[i]) => values[i].kid \in DOMAIN keys

\* C3: after a successful construction or refresh the keys of the cache are
\* exactly the filtered key set of the response of that fetch: a kid cached
\* before and absent from the response is gone, nothing is merged.
C3_KeysAreLatestFetch ==
    [][LET values == inflight.resp.body.keys[1].values
           tpa == inflight.tpa
       IN
       /\ (\/ last'.op = "refresh" /\ last'.out.ok
           \/ last'.op = "decrypt" /\ Len(last'.steps) > 1 /\ Head(last'.steps) = "fetch")
             => /\ ExactlyFiltered(remote_caches'[tpa].keys, values)
                /\ \A kid \in DOMAIN remote_caches[tpa].keys :
                      (\A i \in 1..Len(values) : values[i].kid # kid)
                         => kid \notin DOMAIN remote_caches'[tpa].keys
       /\ (Pending /\ inflight.op = "build" /\ phase' = "registry")
             => ExactlyFiltered(remote_caches'[tpa].keys, values)
       /\ (Pending /\ inflight.op = "build" /\ inflight'.op = "build"
                   /\ tpa \in DOMAIN inflight'.done)
             => ExactlyFiltered(inflight'.done[tpa].keys, values)]_vars

\* a refresh has succeeded on the rotated key set: k1, no signing key any more, is not cached
C3_Witness ==
    /\ last.op = "refresh"
    /\ last.out.ok
    /\ DOMAIN remote_caches[last.tpa].keys = {"k2"}
    /\ \E t \in DOMAIN remote_caches : "k1" \in DOMAIN remote_caches[t].keys

\* C4: is_cache_fresh answers true exactly when the cache has an expiry and
\* now is strictly before it: false without an expiry, at the expiry and
\* after it.
C4_FreshIffBeforeExpiry ==
    last.op = "is_cache_fresh" =>
       LET expiry_time == remote_caches[last.tpa].expiry_time IN
       /\ last.out.ok
       /\ last.out.val = "true" <=> (expiry_time # None /\ now < expiry_time[1])
       /\ expiry_time = None => last.out.val = "false"
       /\ (expiry_time # None /\ now >= expiry_time[1]) => last.out.val = "false"

\* is_cache_fresh has answered false at the very second of the expiry
C4_Witness ==
    /\ last.op = "is_cache_fresh"
    /\ remote_caches[last.tpa].expiry_time = Some(now)
    /\ last.out.val = "false"

\* the checks made, as a set
StepsOf(label) == {label.steps[i] : i \in 1..Len(label.steps)}

\* the provider of the label is registered
Registered(label) == label.tpa \in DOMAIN remote_caches

\* C5: decrypt with auto_refresh = true on a registered cache that is stale
\* never returns without a fetch; it sends exactly one request, the refresh
\* is over before the first check of the pipeline, and no second request
\* follows, whether or not the cache is fresh after the first.
C5_StaleAutoRefreshFetchesOnce ==
    [][/\ (/\ last'.op = "decrypt"
           /\ last'.auto_refresh
           /\ Registered(last')
           /\ Stale(remote_caches[last'.tpa], now))
             => /\ Pending
                /\ last'.fetches = 1
                /\ Head(last'.steps) = "fetch"
                /\ \A i \in 2..Len(last'.steps) : last'.steps[i] # "fetch"
                /\ \A c \in Callers : pc'[c] = "idle"
       /\ inflight'.op = "decrypt" => inflight'.fetches = 1]_vars

\* the one refresh has succeeded, the pipeline has run, and the cache is still stale
C5_Witness ==
    /\ last.op = "decrypt"
    /\ last.auto_refresh
    /\ Registered(last)
    /\ last.fetches = 1
    /\ Len(last.steps) > 1
    /\ Stale(remote_caches[last.tpa], now)

\* C6: decrypt with auto_refresh = true on a registered cache that is fresh
\* sends no request and leaves the cache as it was: it returns what the
\* pipeline makes of the token against the cached keys, and a request is
\* sent by decrypt only for a cache that is stale.
C6_FreshAutoRefreshNoFetch ==
    [][/\ (/\ last'.op = "decrypt"
           /\ last'.auto_refresh
           /\ Registered(last')
           /\ ~Stale(remote_caches[last'.tpa], now))
             => /\ ~Pending
                /\ last'.fetches = 0
                /\ "fetch" \notin StepsOf(last')
                /\ remote_caches' = remote_caches
                /\ pc' = pc
                /\ last'.out = decrypt_unchecked(remote_caches[last'.tpa], last'.token).out
       /\ (~Pending /\ inflight'.op = "decrypt")
             => Stale(remote_caches[inflight'.tpa], now)]_vars

\* a token has been accepted against a fresh cache, with auto_refresh, without a fetch
C6_Witness ==
    /\ last.op = "decrypt"
    /\ last.auto_refresh
    /\ Registered(last)
    /\ ~Stale(remote_caches[last.tpa], now)
    /\ last.fetches = 0
    /\ last.out = Ok("TokenData")

\* the token is a well-formed RS256 JWT, unexpired, signed by the key cached under its kid
GoodFor(token, keys) ==
    /\ token.parses
    /\ token.alg = "RS256"
    /\ token.typ = Some(JWT)
    /\ token.kid # None
    /\ token.kid[1] \in DOMAIN keys
    /\ token.signed_by = keys[token.kid[1]].decoding_key
    /\ token.payload = "valid"

C8_StaleNoAutoRefreshIsError ==
    (/\ last.op = "decrypt"
     /\ ~last.auto_refresh
     /\ Registered(last)
     /\ Stale(remote_caches[last.tpa], now))
       => ~last.out.ok

\* C9: decrypt for a provider that is not registered fails with
\* unrecognized_tpa, for every token and both values of auto_refresh: no
\* request is sent, no check of the pipeline is made, nothing is changed.
C9_UnregisteredProvider ==
    [][(last'.op = "decrypt" /\ last'.tpa \notin DOMAIN remote_caches)
          => /\ last'.out = Err("unrecognized_tpa")
             /\ last'.fetches = 0
             /\ last'.steps = <<>>
             /\ remote_caches' = remote_caches
             /\ pc' = pc
             /\ inflight' = inflight
             /\ ~Pending]_vars

\* a valid token for a cached key has been refused: its provider is not the registered one
C9_Witness ==
    /\ last.op = "decrypt"
    /\ DOMAIN remote_caches # {}
    /\ last.tpa \notin DOMAIN remote_caches
    /\ \E t \in DOMAIN remote_caches : GoodFor(last.token, remote_caches[t].keys)
    /\ last.out = Err("unrecognized_tpa")

\* the typ header names a JWT, in any letter case
TypIsJwt(typ) == typ \in {Some(JWT), Some(<<"j", "w", "t">>), Some(<<"J", "w", "t">>)}

\* the error of the first check that fails, the checks taken in the order
\* alg, typ, kid, key lookup, signature and claims; "none" if none fails
FirstFailure(token, keys) ==
    IF token.alg # "RS256" THEN "invalid_algorithm"
    ELSE IF ~TypIsJwt(token.typ) THEN "unrecognized_jws_type"
    ELSE IF token.kid = None THEN "no_kid_present"
    ELSE IF token.kid[1] \notin DOMAIN keys THEN "no_corresponding_kid_in_store"
    ELSE IF token.signed_by # keys[token.kid[1]].decoding_key \/ token.payload # "valid"
         THEN "unable_to_verify_token"
    ELSE "none"

Verified == last.op = "decrypt_unchecked" /\ last.token.parses

C12_TypCaseInsensitive ==
    (Verified /\ last.token.alg = "RS256") =>
       /\ TypIsJwt(last.token.typ)
             => /\ last.out.err # "unrecognized_jws_type"
                /\ "kid" \in StepsOf(last)
       /\ ~TypIsJwt(last.token.typ)
             => /\ last.out = Err("unrecognized_jws_type")
                /\ last.steps = <<"decode_header", "alg", "typ">>

\* a token with typ "Jwt" has passed the typ check and failed the next one
C12_Witness ==
    /\ Verified
    /\ last.token.alg = "RS256"
    /\ last.token.typ = Some(<<"J", "w", "t">>)
    /\ last.out = Err("no_kid_present")

\* C13: unrecognized_jws_type is returned only for a token whose header has a
\* typ that is not "jwt": a token whose header has no typ is not refused with
\* unrecognized_jws_type.
C13_AbsentTypNotRefused ==
    (Verified /\ last.out.err = "unrecognized_jws_type") =>
       /\ last.token.typ # None
       /\ ~TypIsJwt(last.token.typ)

\* C14: a token with alg RS256 and typ JWT but no kid is refused with
\* no_kid_present, whatever keys the cache holds: neither the selector nor
\* the delegate is called.
C14_MissingKid ==
    (Verified /\ last.token.alg = "RS256" /\ TypIsJwt(last.token.typ)
              /\ last.token.kid = None) =>
       /\ last.out = Err("no_kid_present")
       /\ "selector" \notin StepsOf(last)
       /\ "decode" \notin StepsOf(last)

\* a token without kid has been refused by a cache that holds the key that signed it
C14_Witness ==
    /\ Verified
    /\ last.token.alg = "RS256"
    /\ last.token.typ = Some(JWT)
    /\ last.token.kid = None
    /\ \E kid \in DOMAIN remote_caches[last.tpa].keys :
          remote_caches[last.tpa].keys[kid].decoding_key = last.token.signed_by
    /\ last.out = Err("no_kid_present")

\* the header of the token passes the checks of alg, typ and kid
WellFormed(token) ==
    /\ token.parses
    /\ token.alg = "RS256"
    /\ TypIsJwt(token.typ)
    /\ token.kid # None

\* C15: a token with alg RS256, typ JWT and a kid that is no key of the
\* cache is refused with no_corresponding_kid_in_store and the delegate is
\* not called; the lookup is in the keys the cache holds when the pipeline
\* runs, so after a refresh that dropped the kid the token is refused.
C15_UnknownKid ==
    [][(/\ last'.op \in {"decrypt_unchecked", "decrypt"}
        /\ "decode_header" \in StepsOf(last')
        /\ WellFormed(last'.token)
        /\ last'.token.kid[1] \notin DOMAIN remote_caches'[last'.tpa].keys)
          => /\ last'.out = Err("no_corresponding_kid_in_store")
             /\ "selector" \in StepsOf(last')
             /\ "decode" \notin StepsOf(last')]_vars

\* a token signed by k1 has been refused right after the refresh that left only k2 cached
C15_Witness ==
    /\ last.op = "decrypt"
    /\ last.fetches = 1
    /\ WellFormed(last.token)
    /\ last.token.kid = Some("k1")
    /\ last.token.signed_by = Rsa1
    /\ DOMAIN remote_caches[last.tpa].keys = {"k2"}
    /\ last.out = Err("no_corresponding_kid_in_store")

\* what the delegate makes of the token with the key: signature, payload, exp
DelegateOutcome(token, decoding_key) ==
    LET Failure(d) == [ok |-> FALSE, val |-> "none", err |-> "unable_to_verify_token", diag |-> d] IN
    IF token.signed_by # decoding_key THEN Failure("InvalidSignature")
    ELSE IF token.payload = "malformed" THEN Failure("Json")
    ELSE IF token.payload = "expired" THEN Failure("ExpiredSignature")
    ELSE [ok |-> TRUE, val |-> "TokenData", err |-> "none", diag |-> "none"]

\* C17: when the checks of the header pass and the kid is cached, the
\* result is the outcome of the delegate on the cached key: its failure comes
\* back as unable_to_verify_token with the delegate's diagnostic, its success
\* as the decoded token data.
C17_DelegateOutcomeReturned ==
    (/\ Verified
     /\ WellFormed(last.token)
     /\ last.token.kid[1] \in DOMAIN remote_caches[last.tpa].keys)
       => /\ "decode" \in StepsOf(last)
          /\ last.out = DelegateOutcome(last.token,
                           remote_caches[last.tpa].keys[last.token.kid[1]].decoding_key)

\* the delegate has refused a signature made with another key, and its diagnostic is returned
C17_Witness ==
    /\ Verified
    /\ WellFormed(last.token)
    /\ last.token.kid[1] \in DOMAIN remote_caches[last.tpa].keys
    /\ last.out.err = "unable_to_verify_token"
    /\ last.out.diag = "InvalidSignature"

\* a construction or a refresh has returned after a fetch that received inflight.resp
Fetched == last.op \in {"new", "refresh"} /\ inflight.resp # NoResponse

\* the response arrived whole and carries a cache-control header that can be read
HeadAccepted(resp) ==
    /\ resp.transport = "ok"
    /\ resp.cache_control # None
    /\ resp.cache_control[1].visible_ascii

\* the body is JSON with a `keys` array
HasKeysArray(resp) ==
    /\ resp.body.json
    /\ resp.body.keys # None
    /\ resp.body.keys[1].array

\* the descriptors of the `keys` array of the response
KeysOf(resp) == resp.body.keys[1].values

\* C16: constructing a cache from a response whose body is `keys: []` (the
\* response otherwise in order: received whole, with a readable cache-control
\* header) succeeds with no key cached, and every token that reaches the
\* lookup, whatever its kid, is then refused with no_corresponding_kid_in_store.
C16_EmptyKeySet ==
    (/\ last.op = "new"
     /\ HeadAccepted(inflight.resp)
     /\ HasKeysArray(inflight.resp)
     /\ KeysOf(inflight.resp) = <<>>)
       => /\ last.out.ok
          /\ last.tpa \in DOMAIN remote_caches
          /\ DOMAIN remote_caches[last.tpa].keys = {}
          /\ \A token \in AllTokens :
                WellFormed(token) =>
                   decrypt_unchecked(remote_caches[last.tpa], token).out
                      = Err("no_corresponding_kid_in_store")

\* a cache has been constructed from `keys: []` and holds no key
C16_Witness ==
    /\ last.op = "new"
    /\ HeadAccepted(inflight.resp)
    /\ HasKeysArray(inflight.resp)
    /\ KeysOf(inflight.resp) = <<>>
    /\ last.out.ok
    /\ DOMAIN remote_caches[last.tpa].keys = {}

\* the descriptor is an RSA key for RS256 signatures
SigningKind(v) == v.object /\ v.kty = "RSA" /\ v.alg = "RS256" /\ v.use = "sig"

\* C18: after any sequence of constructions and refreshes every cached key
\* has family RSA, algorithm RS256 and usage sig; a key is cached only under
\* the kid of a fetched descriptor of that kind, and a fetch whose descriptors
\* are all of another kind (the response otherwise in order) succeeds and
\* leaves no key cached.
C18_OnlySigningKeysCached ==
    /\ \A tpa \in DOMAIN remote_caches :
          \A kid \in DOMAIN remote_caches[tpa].keys :
             LET key == remote_caches[tpa].keys[kid].key IN
             /\ key.kty = "RSA"
             /\ key.alg = Some("RS256")
             /\ key.use = "sig"
    /\ (Fetched /\ last.out.ok) =>
          \A kid \in DOMAIN remote_caches[last.tpa].keys :
             \E i \in 1..Len(KeysOf(inflight.resp)) :
                /\ SigningKind(KeysOf(inflight.resp)[i])
                /\ KeysOf(inflight.resp)[i].kid = kid
    /\ (/\ Fetched
        /\ HeadAccepted(inflight.resp)
        /\ HasKeysArray(inflight.resp)
        /\ \A i \in 1..Len(KeysOf(inflight.resp)) : ~SigningKind(KeysOf(inflight.resp)[i]))
          => /\ last.out.ok
             /\ DOMAIN remote_caches[last.tpa].keys = {}

\* a refresh on an EC key, a key without alg, an RS384 key and an enc key
\* (and no key of the signing kind that could be built) has succeeded and
\* left no key cached
C18_Witness ==
    /\ last.op = "refresh"
    /\ HasKeysArray(inflight.resp)
    /\ KeysOf(inflight.resp) = UnusableKeys
    /\ last.out.ok
    /\ DOMAIN remote_caches[last.tpa].keys = {}

\* C19: a fetch fails only if the response (when one is received whole) is
\* not JSON or has no `keys` array; a descriptor that does not decode, is
\* filtered out or yields no verification key never makes it fail, and the
\* acceptable descriptors of the response are all in the result.
C19_FetchFailsOnlyOnBody ==
    Fetched =>
       /\ ~last.out.ok =>
             \/ inflight.resp.transport # "ok"
             \/ ~HasKeysArray(inflight.resp)
       /\ last.out.ok =>
             \A i \in 1..Len(KeysOf(inflight.resp)) :
                Acceptable(KeysOf(inflight.resp)[i])
                   => KeysOf(inflight.resp)[i].kid \in DOMAIN remote_caches[last.tpa].keys

\* the response carries no max-age: no cache-control header, or one without the directive
NoFreshnessMetadata(resp) ==
    \/ resp.cache_control = None
    \/ resp.cache_control = Header(CcPublic)

\* C20: a fetch whose response has a `keys` array and no freshness metadata
\* succeeds: the cache holds the filtered keys of the response, its
\* expiry_time is None and is_cache_fresh is false.
C20_UnknownFreshnessSucceeds ==
    (/\ Fetched
     /\ inflight.resp.transport = "ok"
     /\ HasKeysArray(inflight.resp)
     /\ NoFreshnessMetadata(inflight.resp))
       => /\ last.out.ok
          /\ last.tpa \in DOMAIN remote_caches
          /\ ExactlyFiltered(remote_caches[last.tpa].keys, KeysOf(inflight.resp))
          /\ remote_caches[last.tpa].expiry_time = None
          /\ ~is_cache_fresh(remote_caches[last.tpa], now)

\* build returns the registry: the future of the last RemoteCache::new completes
BuildReturnsRegistry ==
    /\ Pending
    /\ inflight.op = "build"
    /\ phase' = "registry"

\* C21 as stated: right after construction is_cache_fresh() is false when the
\* response had no max-age, and true when it had max-age=3601 (more than the
\* hour of margin), however long the construction itself took
C21_FreshAfterConstruction ==
    [][BuildReturnsRegistry =>
         LET cache == remote_caches'[inflight.tpa] IN
         /\ inflight.resp.cache_control = Header(CcPublic)
               => ~is_cache_fresh(cache, now')
         /\ inflight.resp.cache_control = Header(CcMaxAge3601)
               => is_cache_fresh(cache, now')]_vars

\* C21, amended: right after construction is_cache_fresh() is false when the
\* response had no max-age; when it had max-age=3601 it is true exactly if
\* fewer than 3601 - 3600 seconds have passed since the response head arrived
C21_FreshAfterPromptConstruction ==
    [][BuildReturnsRegistry =>
         LET cache == remote_caches'[inflight.tpa] IN
         /\ inflight.resp.cache_control = Header(CcPublic)
               => ~is_cache_fresh(cache, now')
         /\ inflight.resp.cache_control = Header(CcMaxAge3601)
               => /\ inflight.utc_now # None
                  /\ is_cache_fresh(cache, now') <=> now' - inflight.utc_now[1] < 3601 - 3600]_vars

\* a registry just built whose cache, fetched with max-age=3601, is fresh
C21_Witness ==
    /\ last.op = "build"
    /\ last.out.ok
    /\ \E tpa \in DOMAIN remote_caches :
          /\ remote_caches[tpa].expiry_time = Some(now + 1)
          /\ is_cache_fresh(remote_caches[tpa], now)

\* C22: right after RemoteCache::new(uri) has returned a cache, and before any
\* refresh, is_cache_fresh() is false, whatever max-age the provider advertised
C22_NotFreshBeforeRefresh ==
    (last.op = "new" /\ last.out.ok)
        => ~is_cache_fresh(remote_caches[last.tpa], now)

\* C23: decrypt_unchecked and is_cache_fresh are pure reads: whatever the token
\* and the outcome, the step makes no fetch, starts no future and leaves the
\* uri, the keys and the expiry time of every cache as they were
C23_ReadsArePure ==
    [][last'.op \in {"decrypt_unchecked", "is_cache_fresh"} =>
         /\ remote_caches' = remote_caches
         /\ pc' = pc
         /\ inflight' = inflight
         /\ ~Pending'
         /\ last'.fetches = 0
         /\ \A i \in 1..Len(last'.steps) : last'.steps[i] # "fetch"]_vars

\* decrypt_unchecked has answered no_corresponding_kid_in_store on a stale cache
C23_Witness ==
    /\ last.op = "decrypt_unchecked"
    /\ Registered(last)
    /\ ~last.out.ok
    /\ last.out.err = "no_corresponding_kid_in_store"
    /\ Stale(remote_caches[last.tpa], now)
    /\ remote_caches[last.tpa].expiry_time # None

\* the errors fetch returns
FetchErrors ==
    {"unable_to_fetch_keys", "no_cache_control", "unable_to_parse_headers",
     "unrecognized_response"}

\* the fetch a pending future is waiting for fails at the step being taken:
\* its head is refused, or its body has no array of keys
RefreshFails ==
    \/ \E c \in Callers : pc[c] = "get"
    \/ ~(inflight.resp.transport = "ok" /\ HasKeysArray(inflight.resp))

\* C24: when decrypt with auto_refresh = true found the cache stale and its
\* refresh fails, decrypt returns the error of that refresh after exactly one
\* fetch, runs no step of the pipeline on the keys it had, and leaves the
\* caches as they were; when the refresh succeeds the pipeline runs
C24_FailedAutoRefresh ==
    [][(Pending /\ last'.op = "decrypt") =>
         /\ inflight.auto_refresh
         /\ Stale(remote_caches[inflight.tpa], now)
         /\ IF RefreshFails
            THEN /\ ~last'.out.ok
                 /\ last'.out.err \in FetchErrors
                 /\ last'.fetches = 1
                 /\ last'.steps = <<"fetch">>
                 /\ remote_caches' = remote_caches
                 /\ ~Pending'
            ELSE /\ last'.fetches = 1
                 /\ Len(last'.steps) > 1
                 /\ last'.steps[2] = "decode_header"]_vars

\* the refresh of a decrypt failed on the body while the keys the cache had
\* would have accepted the token
C24_Witness ==
    /\ last.op = "decrypt"
    /\ Registered(last)
    /\ last.auto_refresh
    /\ last.fetches = 1
    /\ last.steps = <<"fetch">>
    /\ ~last.out.ok
    /\ last.out.err = "unrecognized_response"
    /\ GoodFor(last.token, remote_caches[last.tpa].keys)

\* C25: KeyRegistry::decrypt for a registered provider returns what that
\* provider's cache produces: if the pipeline ran, the result of the pipeline
\* on that cache's keys (a kid that is only in another provider's cache is
\* not found), else the error of that cache's refresh; the caches of the
\* other providers and the set of registered providers are unchanged
C25_DispatchToOwnCache ==
    [][(last'.op = "decrypt" /\ last'.tpa \in DOMAIN remote_caches) =>
         LET own == remote_caches'[last'.tpa] IN
         /\ DOMAIN remote_caches' = DOMAIN remote_caches
         /\ \A tpa \in DOMAIN remote_caches \ {last'.tpa} :
               remote_caches'[tpa] = remote_caches[tpa]
         /\ IF "decode_header" \in StepsOf(last')
            THEN /\ last'.out = decrypt_unchecked(own, last'.token).out
                 /\ last'.out.ok <=> GoodFor(last'.token, own.keys)
                 /\ (WellFormed(last'.token) /\ last'.token.kid[1] \notin DOMAIN own.keys)
                       => last'.out = Err("no_corresponding_kid_in_store")
            ELSE /\ ~last'.out.ok
                 /\ last'.out.err \in FetchErrors]_vars

\* a token that another provider's keys accept has been refused by the
\* provider it was presented for, whose cache does not hold its kid
C25_Witness ==
    /\ last.op = "decrypt"
    /\ Registered(last)
    /\ last.out = Err("no_corresponding_kid_in_store")
    /\ \E tpa \in DOMAIN remote_caches \ {last.tpa} :
          GoodFor(last.token, remote_caches[tpa].keys)

\* C26: add_remote(id, location) leaves the builder with exactly one entry for
\* id, holding the location of this call whether or not id had an entry
\* before, and with every other entry as it was; so after any sequence of
\* calls each id maps to the location of the last call made for it
C26_LastAddRemoteWins ==
    [][last'.op = "add_remote" =>
         /\ DOMAIN uris' = DOMAIN uris \cup {last'.tpa}
         /\ uris'[last'.tpa] = last'.uri
         /\ \A tpa \in DOMAIN uris \ {last'.tpa} : uris'[tpa] = uris[tpa]
         /\ Cardinality(DOMAIN uris') <= Cardinality(DOMAIN uris) + 1
         /\ UNCHANGED <<phase, remote_caches>>]_vars

\* add_remote has been called for both providers, the last call with the
\* location the first provider does not have
C26_Witness ==
    /\ last.op = "add_remote"
    /\ DOMAIN uris = Tpas
    /\ uris[last.tpa] = last.uri
    /\ \E tpa \in Tpas : uris[tpa] # last.uri

\* the providers a pending build is for: the one being fetched, those built, those left
FrameIds(frame) ==
    {frame.tpa} \cup DOMAIN frame.done
        \cup {frame.todo[i].tpa : i \in 1..Len(frame.todo)}

\* the providers of the build that the step being taken belongs to
BuildIds == IF Pending THEN FrameIds(inflight) ELSE DOMAIN uris

\* C27: build is all-or-nothing. It constructs one cache per entry, one after
\* the other in the order of the ids; if every construction succeeds the
\* registry holds exactly the builder's ids, one fetch made for each; else
\* build returns the error of the first entry that fails, no registry
\* exists, and no fetch was made for the entries after that one
C27_BuildAllOrNothing ==
    [][/\ (phase = "builder" /\ ~Pending /\ inflight'.op = "build")
            => /\ FrameIds(inflight') = DOMAIN uris
               /\ inflight'.done = EmptyMap
               /\ inflight'.fetches = 1
               /\ \A tpa \in DOMAIN uris : inflight'.tpa <= tpa
       /\ (inflight.op = "build" /\ inflight'.op = "build")
            => /\ FrameIds(inflight') = FrameIds(inflight)
               /\ \A tpa \in DOMAIN inflight.done :
                     tpa \in DOMAIN inflight'.done /\ inflight'.done[tpa] = inflight.done[tpa]
               /\ \A tpa \in DOMAIN inflight'.done : tpa < inflight'.tpa
               /\ \A i \in 1..Len(inflight'.todo) : inflight'.tpa < inflight'.todo[i].tpa
               /\ inflight'.fetches = Cardinality(DOMAIN inflight'.done) + 1
               /\ UNCHANGED <<phase, remote_caches>>
       /\ (last'.op = "build" /\ last'.out.ok)
            => /\ phase' = "registry"
               /\ DOMAIN remote_caches' = BuildIds
               /\ last'.fetches = Cardinality(BuildIds)
               /\ ~Pending'
       /\ (last'.op = "build" /\ ~last'.out.ok)
            => LET upto == {tpa \in BuildIds : tpa <= last'.tpa} IN
               /\ last'.tpa \in BuildIds
               /\ phase' = "builder"
               /\ remote_caches' = EmptyMap
               /\ ~Pending'
               /\ IF last'.out.err \in FetchErrors
                  THEN last'.fetches = Cardinality(upto)
                  ELSE last'.fetches = Cardinality(upto) - 1]_vars

\* build has failed at the fetch for its second entry, after the cache of the
\* first was constructed: two fetches made, no registry
C27_Witness ==
    /\ last.op = "build"
    /\ ~last.out.ok
    /\ last.out.err \in FetchErrors
    /\ last.tpa = 2
    /\ last.fetches = 2
    /\ phase = "builder"
    /\ remote_caches = EmptyMap

\* the step being taken is a successful refresh that follows a successful
\* refresh of the same cache, with no other fetch between the two
SecondRefresh ==
    /\ inflight.op = "refresh"
    /\ HeadAccepted(inflight.resp)
    /\ HasKeysArray(inflight.resp)
    /\ last'.op = "refresh"
    /\ last'.out.ok
    /\ last'.tpa = inflight.tpa

\* the expiry time of the cache is earlier after the step than before it
ExpiryMovesBackward(tpa) ==
    /\ remote_caches[tpa].expiry_time # None
    /\ remote_caches'[tpa].expiry_time # None
    /\ remote_caches'[tpa].expiry_time[1] < remote_caches[tpa].expiry_time[1]

C29_CancelLeavesPriorState ==
    [][/\ (Pending' \/ last'.op = "cancel")
            => UNCHANGED <<phase, remote_caches>>
       /\ last'.op = "cancel"
            => /\ Pending
               /\ ~Pending'
               /\ inflight' = NoFrame]_vars

\* a pending refresh or decrypt of a registry with cached keys has been dropped
C29_Witness ==
    /\ last.op = "cancel"
    /\ phase = "registry"
    /\ \E tpa \in DOMAIN remote_caches :
          /\ remote_caches[tpa].keys # EmptyMap
          /\ Stale(remote_caches[tpa], now)

C31_ConcurrentDecrypts ==
    (phase = "registry" /\ Pending /\ inflight.op = "decrypt")
        => \A tpa \in DOMAIN remote_caches \ {inflight.tpa} :
             ENABLED (\E c \in Callers, token \in Tokens :
                         KeyRegistryDecrypt(c, tpa, token, FALSE))

\* a verification routine has returned for the token of the label
VerifyReturned == last.op \in {"decrypt_unchecked", "decode"}

\* the delegate went past its algorithm pin: it checked the signature
SignatureChecked(out) ==
    out.ok \/ out.diag \in {"InvalidSignature", "Json", "ExpiredSignature"}

\* C32: the delegate checks a signature only under RS256: whatever the token
\* and the keys held, no verification routine returns the delegate's verdict
\* on the signature of a token whose header declares another algorithm
C32_PinnedToRS256 ==
    (VerifyReturned /\ SignatureChecked(last.out)) => last.token.alg = "RS256"

\* C39: verification never panics: for every token it returns a value of the
\* error type, unable_to_verify_token when the header of the token cannot be
\* decoded, and the keys held are as they were
C39_VerifyNeverPanics ==
    VerifyReturned =>
        /\ last.out.err # "panic"
        /\ ~last.token.parses => last.out.err = "unable_to_verify_token"
        /\ remote_caches \in {[t \in {1} |-> cache] : cache \in FetchedCaches}

HttpsLocation(uri) == uri = "https://idp.example/certs"

\* C34: RemoteCache::new with a location that is not a valid HTTPS location,
\* because it does not parse or because its scheme is not https, fails with
\* invalid_uri without a fetch, and no cache is made
C34_NotHttpsIsInvalidUri ==
    (last.op = "new" /\ ~HttpsLocation(last.uri)) =>
        /\ last.out = Err("invalid_uri")
        /\ last.fetches = 0
        /\ \A tpa \in DOMAIN remote_caches : HttpsLocation(remote_caches[tpa].uri)

\* a construction or a refresh has succeeded on a response with this cache-control text
FetchedWith(text) ==
    /\ Fetched
    /\ last.out.ok
    /\ inflight.resp.cache_control = Header(text)

\* C35: the expiry time stored by a successful construction or refresh is
\* now + max_age - 3600, now being the time of the fetch, when the
\* cache-control header has a max-age directive ("max-age=3601", and
\* "max-age=100,max-age=3602" whose first is 100), and None when it has none
C35_ExpiryIsNowPlusMaxAgeLessHour ==
    /\ FetchedWith(CcMaxAge3601)
          => remote_caches[last.tpa].expiry_time = Some(now + 3601 - 3600)
    /\ FetchedWith(CcMaxAge100Then3602)
          => remote_caches[last.tpa].expiry_time = Some(now + 100 - 3600)
    /\ FetchedWith(CcPublic)
          => remote_caches[last.tpa].expiry_time = None

\* a refresh made a second after the construction has stored an expiry time
\* that is 3500 seconds before the time of its fetch
C35_Witness ==
    /\ FetchedWith(CcMaxAge100Then3602)
    /\ last.op = "refresh"
    /\ now = Now0 + 1
    /\ remote_caches[last.tpa].expiry_time = Some(now - 3500)

-----------------------------------------------------------------------------
(* RemoteCache::new over max-age values of every size, in builds with and   *)
(* without overflow checks.                                                *)

\* a max-age directive: its digits as sent, and the number they denote
MaxAge(digits, value) == [digits |-> digits, value |-> value]

\* the max-age values a provider sends: below, at and above the margin, the
\* largest whose sum with the clock fits a u64, the next one, and the largest u64
MaxAges ==
    {MaxAge(<<"0">>, 0), MaxAge(<<"1", "0", "0">>, 100),
     MaxAge(<<"3", "5", "9", "9">>, 3599), MaxAge(<<"3", "6", "0", "0">>, 3600),
     MaxAge(<<"3", "6", "0", "1">>, 3601),
     MaxAge(<<"5", "5", "5", "3", "4">>, 55534),
     MaxAge(<<"5", "5", "5", "3", "7">>, 55537),
     MaxAge(<<"6", "5", "5", "3", "5">>, 65535)}

\* "max-age=<digits>" with one signing key in the body
MaxAgeResponse(max_age) ==
    Response("ok", Header(<<MaxAgeEq>> \o max_age.digits), JsonKeys(<<GoodK1>>))

\* fetch in a build with overflow checks (the dev profile) or without them
\* (the release profile): the checked build panics where the sum leaves u64
fetch_in_build(resp, t, overflow_checks) ==
    LET head == fetch_head(resp, t) IN
    IF /\ overflow_checks
       /\ head.ok
       /\ expiry_time_overflows(max_ages(resp.cache_control[1].text), t)
    THEN Panic("attempt to add with overflow")
    ELSE fetch(resp, t)

\* RemoteCache::new(uri) in either build, the cache put into the registry under tpa
RemoteCacheNewInBuild(tpa, uri, resp, overflow_checks) ==
    /\ AllIdle
    /\ LET parsed == parse_uri(uri)
           fetched == IF parsed.ok THEN fetch_in_build(resp, now, overflow_checks) ELSE parsed
       IN
       /\ remote_caches' =
             IF fetched.ok
             THEN Insert(remote_caches, tpa, new_cache(parsed.val, fetched.val))
             ELSE remote_caches
       /\ inflight' = [NoFrame EXCEPT !.op = "new", !.tpa = tpa,
                                      !.resp = IF parsed.ok THEN resp ELSE NoResponse]
       /\ last' = [Label("new", tpa, UnparseableToken, FALSE,
                         IF fetched.ok THEN Ok("unit") ELSE fetched,
                         IF parsed.ok THEN 1 ELSE 0, <<>>)
                   EXCEPT !.uri = uri]
    /\ UNCHANGED <<now, uris, phase, pc>>
    /\ UNCHANGED local_cache

NextExpiry ==
    \/ \E tpa \in Tpas, max_age \in MaxAges, overflow_checks \in BOOLEAN :
          RemoteCacheNewInBuild(tpa, "https://idp.example/certs",
                                MaxAgeResponse(max_age), overflow_checks)
    \/ take
    \/ Tick

SpecExpiry == InitFetch /\ [][NextExpiry]_vars

\* RemoteCache::new has just returned for a response carrying max_age
NewReturnedFor(max_age) ==
    /\ last.op = "new"
    /\ inflight.resp = MaxAgeResponse(max_age)

\* C36: for every max_age a provider can send, small or very large, the
\* expiry computation neither panics nor wraps around: construction succeeds
\* with the expiry time now + max_age - 3600 as a number, and for a max_age
\* below the margin the cache counts as already expired.
C36_ExpiryNeverPanicsNorWraps ==
    \A max_age \in MaxAges :
        NewReturnedFor(max_age) =>
            /\ last.out.err # "panic"
            /\ last.out.ok
            /\ remote_caches[last.tpa].expiry_time = Some(now + max_age.value - one_hour)
            /\ max_age.value < one_hour => ~is_cache_fresh(remote_caches[last.tpa], now)

\* C37 as stated: of several max-age directives the first occurrence decides
\* the expiry and the later ones are ignored, also when the value of the first
\* is no number (then no expiry comes out of the header).
C37_FirstOccurrenceWins ==
    /\ FetchedWith(CcMaxAge100Then3602) => remote_caches[last.tpa].expiry_time = Some(now + 100 - one_hour)
    /\ FetchedWith(CcPublicBadThen3601) => remote_caches[last.tpa].expiry_time = None

\* C37, amended: of several max-age directives the first whose value parses as
\* a number decides the expiry; occurrences before it that do not parse are
\* skipped, and every occurrence after it is ignored.
C37_FirstParseableOccurrenceWins ==
    /\ FetchedWith(CcMaxAge100Then3602) => remote_caches[last.tpa].expiry_time = Some(now + 100 - one_hour)
    /\ FetchedWith(CcPublicBadThen3601) => remote_caches[last.tpa].expiry_time = Some(now + 3601 - one_hour)

C37_Witness ==
    /\ FetchedWith(CcPublicBadThen3601)
    /\ max_ages(inflight.resp.cache_control[1].text) = <<3601>>
    /\ remote_caches[last.tpa].expiry_time = Some(now + 1)

\* the max-age a cache-control header of the provider declares, if any
DeclaredMaxAge(resp) ==
    CASE resp.cache_control = Header(CcMaxAge3601) -> Some(3601)
      [] resp.cache_control = Header(CcPublicBadThen3601) -> Some(3601)
      [] resp.cache_control = Header(CcMaxAge100Then3602) -> Some(100)
      [] resp.cache_control = Header(CcPublic) -> None

AcceptableAt(values, kid) ==
    {i \in 1..Len(values) : Acceptable(values[i]) /\ values[i].kid = kid}

\* the last position in a non-empty set of positions
LastOf(positions) == CHOOSE i \in positions : \A j \in positions : j <= i

\* C40: after a successful construction or refresh every entry of keys is
\* filed under the kid of the Key it holds, and of several acceptable
\* descriptors with one kid in the response the entry is built from the one
\* that comes last.
C40_IndexedByKidLastWins ==
    (Fetched /\ last.out.ok) =>
        \A kid \in DOMAIN remote_caches[last.tpa].keys :
            LET entry == remote_caches[last.tpa].keys[kid]
                values == KeysOf(inflight.resp)
            IN
            /\ entry.key.kid = kid
            /\ AcceptableAt(values, kid) # {}
            /\ entry.decoding_key = [n |-> values[LastOf(AcceptableAt(values, kid))].n,
                                     e |-> values[LastOf(AcceptableAt(values, kid))].e]
            /\ entry.key.n = values[LastOf(AcceptableAt(values, kid))].n

\* a response with two acceptable descriptors under k1 has left the second
C40_Witness ==
    /\ Fetched
    /\ last.out.ok
    /\ KeysOf(inflight.resp) = KeysOf(RespMixed)
    /\ AcceptableAt(KeysOf(inflight.resp), "k1") = {1, 2}
    /\ remote_caches[last.tpa].keys["k1"].decoding_key.n = "n2"

====
